---- MODULE Spec2Model ----
(***************************************************************************)
(* The agents-and-edges risk calculator (src/src/App.jsx): the edge-count  *)
(* and risk functions, the series generator, the share-URL codec, and the  *)
(* scenario state manager (compare list, saved list, persisted store).     *)
(*                                                                         *)
(* Numbers.  A JavaScript number is held as an integer count of HALVES     *)
(* (3 is held as 6, 2.5 as 5): the number inputs of the page deliver any   *)
(* decimal text, and the code never rounds what Number() makes of it, so   *)
(* the model has to hold at least one non-integer.  Risk values, which     *)
(* involve the constants 1.3, 0.3 and 0.12, are exact rationals <<p, q>>.  *)
(*                                                                         *)
(* Text.  Text that the code parses (the text of a number input, of a      *)
(* query parameter, of String(number)) is a sequence of one-character      *)
(* strings.  Text that the code only compares or tests for emptiness       *)
(* (ids, names, topology values) is a TLA+ string.                         *)
(***************************************************************************)
EXTENDS Integers, Sequences, FiniteSets, TLC

-----------------------------------------------------------------------------
(* Numbers in halves.                                                      *)

Whole(i) == 2 * i                 \* the integer i, in halves
IsWhole(h) == h % 2 = 0           \* h is an integer
Trunc(h) == IF h >= 0 THEN h \div 2 ELSE -((-h) \div 2)   \* integer part

Min(a, b) == IF a <= b THEN a ELSE b
Max(a, b) == IF a >= b THEN a ELSE b

\* Math.max(min, Math.min(max, n))
clamp(n, min, max) == Max(min, Min(max, n))

-----------------------------------------------------------------------------
(* Text of numbers: String(number), parseInt(text, 10), Number(text).      *)

DigitChars == <<"0", "1", "2", "3", "4", "5", "6", "7", "8", "9">>
IsDigit(c) == \E i \in 1..10 : DigitChars[i] = c
DigitVal(c) == (CHOOSE i \in 1..10 : DigitChars[i] = c) - 1

RECURSIVE Digits(_)
Digits(i) == IF i < 10 THEN <<DigitChars[i + 1]>>
             ELSE Digits(i \div 10) \o <<DigitChars[(i % 10) + 1]>>

\* String(x) for a number x held in halves: "-" sign, integer digits, ".5"
NumToStr(h) ==
    LET a == IF h < 0 THEN -h ELSE h
    IN  (IF h < 0 THEN <<"-">> ELSE <<>>)
        \o Digits(a \div 2)
        \o (IF a % 2 = 1 THEN <<".", "5">> ELSE <<>>)

\* The same text as a TLA+ string, where String(x) becomes an id or a name.
RECURSIVE Join(_)
Join(s) == IF s = <<>> THEN "" ELSE Head(s) \o Join(Tail(s))

RECURSIVE SkipSpace(_)
SkipSpace(s) == IF s # <<>> /\ Head(s) = " " THEN SkipSpace(Tail(s)) ELSE s

RECURSIVE LeadDigits(_)
LeadDigits(s) == IF s # <<>> /\ IsDigit(Head(s))
                 THEN <<Head(s)>> \o LeadDigits(Tail(s)) ELSE <<>>

RECURSIVE DigitsVal(_, _)
DigitsVal(s, acc) == IF s = <<>> THEN acc
                     ELSE DigitsVal(Tail(s), 10 * acc + DigitVal(Head(s)))

NaN == [nan |-> TRUE, v |-> 0]
Num(h) == [nan |-> FALSE, v |-> h]

\* Number.parseInt(text, 10): leading blanks, a sign, then digits up to the
\* first character that is no digit; NaN when there is no digit.
parseInt(text) ==
    LET s    == SkipSpace(text)
        neg  == s # <<>> /\ Head(s) = "-"
        body == IF s # <<>> /\ Head(s) \in {"-", "+"} THEN Tail(s) ELSE s
        ds   == LeadDigits(body)
    IN  IF ds = <<>> THEN NaN
        ELSE Num(Whole(IF neg THEN -DigitsVal(ds, 0) ELSE DigitsVal(ds, 0)))

\* Number(text): the empty text is 0, a decimal literal is its value, any
\* other text is NaN.  (Fractions other than .0 and .5 are not in the input
\* sets of this model.)
NumberOfText(text) ==
    LET neg  == text # <<>> /\ Head(text) = "-"
        body == IF text # <<>> /\ Head(text) \in {"-", "+"} THEN Tail(text) ELSE text
        ds   == LeadDigits(body)
        rest == SubSeq(body, Len(ds) + 1, Len(body))
        mag  == Whole(DigitsVal(ds, 0))
        sgn(x) == IF neg THEN -x ELSE x
    IN  IF text = <<>> THEN Num(0)
        ELSE IF ds = <<>> THEN NaN
        ELSE IF rest = <<>> THEN Num(sgn(mag))
        ELSE IF rest = <<".", "5">> THEN Num(sgn(mag + 1))
        ELSE IF rest = <<".", "0">> THEN Num(sgn(mag))
        ELSE NaN

\* safeInt(v, fallback), given String(v)
safeInt(text, fallback) ==
    LET n == parseInt(text) IN IF n.nan THEN fallback ELSE n.v

-----------------------------------------------------------------------------
(* Topologies and edge counts.  n is an integer here (the series generator *)
(* calls with the row index); k is a number in halves, and so is the edge  *)
(* count.                                                                  *)

TOPOLOGIES == <<"bounded", "mesh", "hub", "pipeline">>
TopologyValues == {TOPOLOGIES[i] : i \in 1..Len(TOPOLOGIES)}

\* for (i = 2; i <= n; i += 1) edges += Math.min(k, i - 1)
RECURSIVE edgesBoundedKLoop(_, _, _, _)
edgesBoundedKLoop(i, n, k, edges) ==
    IF i <= n THEN edgesBoundedKLoop(i + 1, n, k, edges + Min(k, Whole(i - 1)))
    ELSE edges
edgesBoundedK(n, k) == edgesBoundedKLoop(2, n, k, 0)

edgesFullMesh(n) == Whole((n * (n - 1)) \div 2)

RECURSIVE edgesHubLoop(_, _, _, _)
edgesHubLoop(i, n, k, edges) ==
    IF i <= n
    THEN LET extra == Min(Max(0, k - Whole(1)), Whole(i - 2))
         IN  edgesHubLoop(i + 1, n, k, edges + Whole(1) + extra)
    ELSE edges
edgesHubAndSpokeNoGuard(n, k) == edgesHubLoop(2, n, k, 0)
edgesHubAndSpoke(n, k) == IF k <= 0 THEN 0 ELSE edgesHubLoop(2, n, k, 0)

edgesPipelineShrinking(n, k) == IF k <= 0 THEN 0 ELSE Max(0, Whole(n) - k)
edgesPipeline(n, k) == IF k <= 0 THEN 0 ELSE Max(0, Whole(n - 1))

computeEdges(n, k, topology) ==
    CASE topology = "mesh" -> edgesFullMesh(n)
      [] topology = "hub" -> edgesHubAndSpoke(n, k)
      [] topology = "pipeline" -> edgesPipeline(n, k)
      [] OTHER -> edgesBoundedK(n, k)

-----------------------------------------------------------------------------
(* Risk values: exact rationals <<p, q>> in lowest terms, q > 0.           *)

RECURSIVE GCD(_, _)
GCD(a, b) == IF b = 0 THEN a ELSE GCD(b, a % b)
Abs(x) == IF x < 0 THEN -x ELSE x

Rat(p, q) == LET g == GCD(Abs(p), Abs(q))
                 s == IF q < 0 THEN -1 ELSE 1
             IN  IF p = 0 THEN <<0, 1>> ELSE <<s * (p \div g), s * (q \div g)>>
RInt(i) == <<i, 1>>
RHalves(h) == Rat(h, 2)
RAdd(x, y) == Rat(x[1] * y[2] + y[1] * x[2], x[2] * y[2])
RMul(x, y) == LET a == Rat(x[1], y[2])   \* cross-reduce first: keeps the
                  b == Rat(y[1], x[2])   \* intermediate products small
              IN  Rat(a[1] * b[1], a[2] * b[2])
RDiv(x, y) == RMul(x, <<y[2], y[1]>>)

\* const DEFAULTS = { r0: 1, loadL: 1.3, alpha: 0.3, gamma: 0.12 }
DEFAULTS == [r0 |-> RInt(1), loadL |-> Rat(13, 10),
             alpha |-> Rat(3, 10), gamma |-> Rat(12, 100)]

riskLinear(n, r0) == RMul(RInt(n), r0)

riskAgentsEdgesNextAgent(n, k, topology, autonomyScore, c) ==
    LET E == RHalves(computeEdges(n + 1, k, topology))
        A == RHalves(autonomyScore)
        coupling == RMul(RMul(E, c.loadL), A)
    IN  RAdd(RAdd(RMul(RInt(n), c.r0), RMul(c.alpha, coupling)),
             RDiv(RMul(c.gamma, RMul(coupling, coupling)), RInt(n)))

riskAgentsEdgesUndivided(n, k, topology, autonomyScore, c) ==
    LET E == RHalves(computeEdges(n, k, topology))
        A == RHalves(autonomyScore)
        coupling == RMul(RMul(E, c.loadL), A)
    IN  RAdd(RAdd(RMul(RInt(n), c.r0), RMul(c.alpha, coupling)),
             RMul(c.gamma, RMul(coupling, coupling)))

\* const E = computeEdges(n, k, topology); coupling = E * loadL * A;
\* return n * r0 + alpha * coupling + gamma * (coupling * coupling) / n
riskAgentsEdges(n, k, topology, autonomyScore, c) ==
    LET E == RHalves(computeEdges(n, k, topology))
        A == RHalves(autonomyScore)
        coupling == RMul(RMul(E, c.loadL), A)
    IN  RAdd(RAdd(RMul(RInt(n), c.r0), RMul(c.alpha, coupling)),
             RDiv(RMul(c.gamma, RMul(coupling, coupling)), RInt(n)))

\* const coupling = E * loadL * A
couplingOf(n, k, topology, autonomyScore, c) ==
    RMul(RMul(RHalves(computeEdges(n, k, topology)), c.loadL),
         RHalves(autonomyScore))

\* Math.floor and Math.round (the integer nearest x, halves going up)
Floor(x) == x[1] \div x[2]
Round(x) == Floor(RAdd(x, Rat(1, 2)))

\* Number.prototype.toLocaleString() of a non-negative integer: its digits in
\* groups of three, joined by the separator of the browser's locale.
RECURSIVE Grouped(_, _)
Grouped(i, sep) ==
    IF i < 1000 THEN ToString(i)
    ELSE LET low == i % 1000
             pad == IF low < 10 THEN "00" ELSE IF low < 100 THEN "0" ELSE ""
         IN  Grouped(i \div 1000, sep) \o sep \o pad \o ToString(low)
GroupSeparators == {",", ".", " ", ""}

\* `${Math.round(m).toLocaleString()}x`
formatMultiple(m, sep) == Grouped(Round(m), sep) \o "x"

-----------------------------------------------------------------------------
(* JSON values.  JSON.stringify / JSON.parse, the base64 wrapping and      *)
(* URLSearchParams are library code that carries a JSON value unchanged;   *)
(* what the repository does with the value on either side is modelled.     *)
(* A field value is [t, s, v]: t says which of undefined, null, a string   *)
(* (s), a number (v, in halves) or the empty array [] it is.  In the       *)
(* fields the code parses as numbers (n, autonomy, k) s is parsed text;    *)
(* in id, name and topology it is a TLA+ string.                           *)

jUndef == [t |-> "undef", s |-> "", v |-> 0]
jNull == [t |-> "null", s |-> "", v |-> 0]
jArr == [t |-> "arr", s |-> "", v |-> 0]
jStr(str) == [t |-> "str", s |-> str, v |-> 0]
jNum(h) == [t |-> "num", s |-> "", v |-> h]

nUndef == [t |-> "undef", s |-> <<>>, v |-> 0]
nNull == [t |-> "null", s |-> <<>>, v |-> 0]
nStr(text) == [t |-> "str", s |-> text, v |-> 0]
nNum(h) == [t |-> "num", s |-> <<>>, v |-> h]

\* JavaScript truthiness, as used by x.id || ..., x.name || ...
Truthy(j) == CASE j.t = "str" -> j.s # ""
               [] j.t = "num" -> j.v # 0
               [] j.t = "arr" -> TRUE
               [] OTHER -> FALSE

\* String(x) of an id or name field that is truthy
StringOf(j) == CASE j.t = "str" -> j.s
                 [] j.t = "num" -> Join(NumToStr(j.v))
                 [] OTHER -> ""            \* String([]) is ""

\* String(x) of a field handed to safeInt
TextOf(j) == CASE j.t = "str" -> j.s
               [] j.t = "num" -> NumToStr(j.v)
               [] j.t = "null" -> <<"n", "u", "l", "l">>
               [] OTHER -> <<"u", "n", "d", "e", "f", "i", "n", "e", "d">>

\* An element of a parsed array: null (reading a property of it throws) or
\* an object; a primitive element reads every property as undefined, like {}.
JNullEntry == [isNull |-> TRUE, id |-> jUndef, name |-> jUndef, n |-> nUndef,
               autonomy |-> nUndef, k |-> nUndef, topology |-> jUndef]
JObject(id, name, n, autonomy, k, topology) ==
    [isNull |-> FALSE, id |-> id, name |-> name, n |-> n,
     autonomy |-> autonomy, k |-> k, topology |-> topology]

\* A stored or shared text: absent, text that fails to decode or parse
\* ("bad"), or JSON text: of an array of entries, or of something else.
NoText == [kind |-> "absent", isArray |-> FALSE, items |-> <<>>]
BadText == [kind |-> "bad", isArray |-> FALSE, items |-> <<>>]
JsonOther == [kind |-> "json", isArray |-> FALSE, items |-> <<>>]
JsonArray(items) == [kind |-> "json", isArray |-> TRUE, items |-> items]

-----------------------------------------------------------------------------
(* Scenarios and the share-URL codec.                                      *)

MaxCompare == 8
MaxSaved == 20
MaxAgents == 200
MaxAutonomy == 10

Scenario(id, name, n, autonomy, k, topology) ==
    [id |-> id, name |-> name, n |-> n, autonomy |-> autonomy, k |-> k,
     topology |-> topology]

\* `${Date.now().toString(36)}-${Math.random()...}`: the c-th id made in this
\* page's life
stableId(c) == "g" \o ToString(c)

scenarioToQuery(s) ==
    JObject(jStr(s.id), jStr(s.name), nNum(s.n), nNum(s.autonomy), nNum(s.k),
            jStr(s.topology))

Take(seq, m) == SubSeq(seq, 1, Min(m, Len(seq)))

NoParam == [present |-> FALSE, text |-> <<>>]
Param(text) == [present |-> TRUE, text |-> text]
NoTParam == [present |-> FALSE, text |-> ""]
TParam(str) == [present |-> TRUE, text |-> str]
\* String(params.get(name)): a missing parameter reads null
ParamText(p) == IF p.present THEN p.text ELSE <<"n", "u", "l", "l">>

buildShareUrl(n, autonomy, k, topology, scenarios) ==
    [n |-> Param(NumToStr(n)), a |-> Param(NumToStr(autonomy)),
     k |-> Param(NumToStr(k)), t |-> TParam(topology),
     sc |-> IF Len(scenarios) > 0
            THEN JsonArray([i \in 1..Len(scenarios) |-> scenarioToQuery(scenarios[i])])
            ELSE NoText]

\* The object the .map callback builds from entry x; id is the stableId()
\* the callback would draw.
cleanEntry(x, defaultName, id) ==
    Scenario(IF Truthy(x.id) THEN StringOf(x.id) ELSE id,
             IF Truthy(x.name) THEN StringOf(x.name) ELSE defaultName,
             clamp(safeInt(TextOf(x.n), Whole(30)), Whole(1), Whole(MaxAgents)),
             clamp(safeInt(TextOf(x.autonomy), Whole(5)), Whole(1), Whole(MaxAutonomy)),
             clamp(safeInt(TextOf(x.k), Whole(3)), Whole(0), Whole(199)),
             IF x.topology.t = "str" /\ x.topology.s \in TopologyValues
             THEN x.topology.s ELSE "bounded")

reclampKNot(s) == s
reclampKToN(s) == [s EXCEPT !.k = clamp(s.k, Whole(0), s.n)]
reclampK(s) == [s EXCEPT !.k = clamp(s.k, Whole(0), s.n - Whole(1))]

\* parsed.map(x => ...) from entry i on, drawing ids as it goes: the list,
\* the number of ids drawn, and whether reading a null entry threw.
RECURSIVE cleanAll(_, _, _, _)
cleanAll(items, defaultName, c, acc) ==
    IF items = <<>> THEN [list |-> acc, ids |-> c, threw |-> FALSE]
    ELSE LET x == Head(items)
         IN  IF x.isNull THEN [list |-> <<>>, ids |-> c, threw |-> TRUE]
             ELSE cleanAll(Tail(items), defaultName,
                           IF Truthy(x.id) THEN c ELSE c + 1,
                           Append(acc, cleanEntry(x, defaultName, stableId(c + 1))))

MapSeq(seq, Op(_)) == [i \in 1..Len(seq) |-> Op(seq[i])]

sliceCompare(list) == Take(list, MaxCompare)

\* The scenarios part of readInitialStateFromUrl (lines 173-195): the list
\* and the number of ids drawn.
readScenarios(sc, c) ==
    IF sc.kind = "json"                              \* if (sc); "bad" throws
    THEN IF sc.isArray
         THEN LET m == cleanAll(sc.items, "Scenario", c, <<>>)
              IN  [list |-> IF m.threw THEN <<>>     \* catch { scenarios = [] }
                            ELSE MapSeq(sliceCompare(m.list), reclampK),
                   ids |-> m.ids]
         ELSE [list |-> <<>>, ids |-> c]
    ELSE [list |-> <<>>, ids |-> c]

readInitialStateFromUrl(q, c) ==
    LET n == clamp(safeInt(ParamText(q.n), Whole(30)), Whole(1), Whole(MaxAgents))
        autonomy == clamp(safeInt(ParamText(q.a), Whole(5)), Whole(1), Whole(MaxAutonomy))
        k == clamp(safeInt(ParamText(q.k), Whole(3)), Whole(0), n - Whole(1))
        topologyRaw == IF q.t.present /\ q.t.text # "" THEN q.t.text ELSE "bounded"
        topology == IF topologyRaw \in TopologyValues THEN topologyRaw ELSE "bounded"
        r == readScenarios(q.sc, c)
    IN  [n |-> n, autonomy |-> autonomy, k |-> k, topology |-> topology,
         scenarios |-> r.list, ids |-> r.ids]

\* The load effect (lines 320-342): the saved list after mount.
sliceSaved(list) == Take(list, MaxSaved)

loadSaved(raw, c) ==
    IF raw.kind = "json" /\ raw.isArray
    THEN LET m == cleanAll(raw.items, "Saved", c, <<>>)
         IN  [list |-> IF m.threw THEN <<>>          \* catch { ignore }
                       ELSE sliceSaved(MapSeq(m.list, reclampK)),
              ids |-> m.ids]
    ELSE [list |-> <<>>, ids |-> c]

-----------------------------------------------------------------------------
(* The component's state.                                                  *)

VARIABLES
    nAgents, autonomy, k,    \* useState: a number, or the text of an input
    topology,                \* useState: a topology value
    scenarios,               \* useState: the compare list
    savedScenarios,          \* useState: the saved list
    stored,                  \* localStorage[SAVED_KEY]
    search,                  \* window.location.search when the page was opened
    nextId,                  \* how many ids stableId() has made
    lastOp,                  \* the handler that ran last, and the lengths of
                             \* the two lists when it started
    ops,                     \* how many handlers have run
    probe                    \* a pure function's arguments and result

page == <<nAgents, autonomy, k, topology, scenarios, savedScenarios, stored,
          search, nextId>>
vars == <<page, lastOp, ops, probe>>

rawNum(h) == [isText |-> FALSE, text |-> <<>>, v |-> h]
rawText(text) == [isText |-> TRUE, text |-> text, v |-> 0]

\* Number(x) || fallback
NumberOr(raw, fallback) ==
    LET x == IF raw.isText THEN NumberOfText(raw.text) ELSE Num(raw.v)
    IN  IF x.nan \/ x.v = 0 THEN fallback ELSE x.v

\* lines 314-317, as functions of the raw state
safeNOf(rn) == clamp(NumberOr(rn, Whole(1)), Whole(1), Whole(MaxAgents))
safeAutonomyOf(ra) == clamp(NumberOr(ra, Whole(1)), Whole(1), Whole(MaxAutonomy))
safeKNoClamp(rk, rn) == NumberOr(rk, Whole(0))
safeKOf(rk, rn) == clamp(NumberOr(rk, Whole(0)), Whole(0), safeNOf(rn) - Whole(1))
safeTopologyOf(t) == IF t \in TopologyValues THEN t ELSE "bounded"

\* The URL that the sync effect (lines 345-354) writes after every render,
\* and that shareUrl (lines 423-432) holds: a function of the state.
shareUrlOf(rn, ra, rk, t, list) ==
    buildShareUrl(safeNOf(rn), safeAutonomyOf(ra), safeKOf(rk, rn),
                  safeTopologyOf(t), list)

safeN == safeNOf(nAgents)
safeAutonomy == safeAutonomyOf(autonomy)
safeK == safeKOf(k, nAgents)
safeTopology == safeTopologyOf(topology)
shareUrl == shareUrlOf(nAgents, autonomy, k, topology, scenarios)

-----------------------------------------------------------------------------
(* Inputs.                                                                 *)

MaxOps == 2          \* handlers run after the page has loaded

\* What a number input or slider hands to setNAgents, setAutonomy, setK.
NTexts == {<<>>, <<"2", ".", "5">>, <<"2", "0", "1">>}
ATexts == {<<>>, <<"1", "1">>}
KTexts == {<<"0", ".", "5">>, <<"-", "1">>, <<"5">>}
Names == {"", "B"}

\* The rows of a list the user clicks a button of: the first and the last.
Rows(list) == {i \in 1..Len(list) : i = 1 \/ i = Len(list)}

\* Arrays alternate two entries.
Cycle(e1, e2, len) == [i \in 1..len |-> IF i % 2 = 1 THEN e1 ELSE e2]

TidyEntry == JObject(jStr("u1"), jStr("A"), nNum(Whole(4)), nNum(Whole(5)),
                     nNum(Whole(2)), jStr("hub"))
SloppyEntry == JObject(jUndef, jStr(""), nStr(<<"7", "x">>), nNull,
                       nNum(Whole(300)), jStr("star"))

\* An entry that shares TidyEntry's id and differs in its values.
TwinEntry == JObject(jStr("u1"), jStr("T"), nNum(Whole(6)), nNum(Whole(2)),
                     nNum(Whole(0)), jStr("bounded"))
EntryPairs == {<<TidyEntry, SloppyEntry>>, <<TidyEntry, TwinEntry>>}

\* Array lengths: one entry, the cap, one more than the cap.
PayloadLens == {1, MaxCompare, MaxCompare + 1}
StoreLens == {1, MaxSaved, MaxSaved + 1}

Queries ==
    {[n |-> NoParam, a |-> NoParam, k |-> NoParam, t |-> NoTParam, sc |-> NoText]}
    \cup {[n |-> Param(<<"3">>), a |-> NoParam, k |-> NoParam, t |-> TParam("mesh"),
           sc |-> JsonArray(Cycle(p[1], p[2], len))] :
              p \in EntryPairs, len \in PayloadLens}

\* An element that is no object and not null (a number, a string, true):
\* every property of it reads undefined.
BareEntry == JObject(jUndef, jUndef, nUndef, nUndef, nUndef, jUndef)

Stores ==
    {NoText} \cup {JsonArray(Cycle(SloppyEntry, TidyEntry, len)) : len \in StoreLens}
    \cup {JsonArray(<<BareEntry, TidyEntry>>), JsonArray(<<TidyEntry, JNullEntry>>)}

-----------------------------------------------------------------------------
(* Construction: the first render (lines 301-312) and the mount effect     *)
(* that loads the saved scenarios.                                         *)

NoProbe == [fn |-> "none", n |-> 0, k |-> 0, topology |-> "", edges |-> 0]

\* The state once the page has been opened with query q over the store.
Opened(q, store) ==
    LET initial == readInitialStateFromUrl(q, 0)
        saved == loadSaved(store, initial.ids)
    IN  [nAgents |-> rawNum(initial.n), autonomy |-> rawNum(initial.autonomy),
         k |-> rawNum(initial.k), topology |-> initial.topology,
         scenarios |-> initial.scenarios, savedScenarios |-> saved.list,
         nextId |-> saved.ids]

Start(queries, stores) ==
    \E q \in queries, store \in stores :
    \E st \in {Opened(q, store)} :
        /\ nAgents = st.nAgents
        /\ autonomy = st.autonomy
        /\ k = st.k
        /\ topology = st.topology
        /\ scenarios = st.scenarios
        /\ savedScenarios = st.savedScenarios
        /\ nextId = st.nextId
        /\ stored = store
        /\ search = q
        /\ lastOp = [name |-> "open", compare |-> 0, saved |-> 0]
        /\ ops = 0
        /\ probe = NoProbe

Init == Start(Queries, Stores)

-----------------------------------------------------------------------------
(* Handlers.                                                               *)

Ran(name) ==
    /\ ops < MaxOps
    /\ ops' = ops + 1
    /\ lastOp' = [name |-> name, compare |-> Len(scenarios),
                  saved |-> Len(savedScenarios)]
    /\ UNCHANGED <<search, probe>>

\* onChange of the agents slider / number input (lines 534-535)
setNAgentsInput(texts) ==
    \E text \in texts :
        /\ Ran("setNAgents")
        /\ nAgents' = rawText(text)
        /\ UNCHANGED <<autonomy, k, topology, scenarios, savedScenarios, stored, nextId>>

setAutonomyInput ==
    \E text \in ATexts :
        /\ Ran("setAutonomy")
        /\ autonomy' = rawText(text)
        /\ UNCHANGED <<nAgents, k, topology, scenarios, savedScenarios, stored, nextId>>

setKInput ==
    \E text \in KTexts :
        /\ Ran("setK")
        /\ k' = rawText(text)
        /\ UNCHANGED <<nAgents, autonomy, topology, scenarios, savedScenarios, stored, nextId>>

setTopologySelect ==
    \E t \in TopologyValues :
        /\ Ran("setTopology")
        /\ topology' = t
        /\ UNCHANGED <<nAgents, autonomy, k, scenarios, savedScenarios, stored, nextId>>

\* [...prev, item].slice(0, 8)
pinDropOldest(prev, item) ==
    LET all == Append(prev, item)
    IN  SubSeq(all, Max(1, Len(all) - MaxCompare + 1), Len(all))
pinUncapped(prev, item) == Append(prev, item)
pin(prev, item) == sliceCompare(Append(prev, item))

addScenario ==
    /\ Ran("addScenario")
    /\ scenarios' = pin(scenarios,
                        Scenario(stableId(nextId + 1),
                                 "Scenario " \o ToString(Len(scenarios) + 1),
                                 safeN, safeAutonomy, safeK, safeTopology))
    /\ nextId' = nextId + 1
    /\ UNCHANGED <<nAgents, autonomy, k, topology, savedScenarios, stored>>

\* onClick={() => setScenarios([])}
clearScenarios ==
    /\ Ran("clear")
    /\ scenarios' = <<>>
    /\ UNCHANGED <<nAgents, autonomy, k, topology, savedScenarios, stored, nextId>>

\* prev.map(x => x.id === s.id ? { ...x, name } : x)
renameScenario ==
    \E i \in Rows(scenarios), name \in Names :
        LET id == scenarios[i].id
            ren(x) == IF x.id = id THEN [x EXCEPT !.name = name] ELSE x
        IN  /\ Ran("rename")
            /\ scenarios' = MapSeq(scenarios, ren)
            /\ UNCHANGED <<nAgents, autonomy, k, topology, savedScenarios, stored, nextId>>
    
\* prev.filter(x => x.id !== s.id)
removeScenario ==
    \E i \in Rows(scenarios) :
        LET id == scenarios[i].id
            keep(x) == x.id # id
        IN  /\ Ran("remove")
            /\ scenarios' = SelectSeq(scenarios, keep)
            /\ UNCHANGED <<nAgents, autonomy, k, topology, savedScenarios, stored, nextId>>
    
\* loadScenario(s), and applySaved(s), which only calls it
LoadInto(s) ==
    /\ nAgents' = rawNum(s.n)
    /\ autonomy' = rawNum(s.autonomy)
    /\ k' = rawNum(s.k)
    /\ topology' = s.topology

loadScenario ==
    \E i \in Rows(scenarios) :
        /\ Ran("loadScenario")
        /\ LoadInto(scenarios[i])
        /\ UNCHANGED <<scenarios, savedScenarios, stored, nextId>>

applySaved ==
    \E i \in Rows(savedScenarios) :
        /\ Ran("applySaved")
        /\ LoadInto(savedScenarios[i])
        /\ UNCHANGED <<scenarios, savedScenarios, stored, nextId>>

persistSavedAllOrNothing(list) ==
    \/ savedScenarios' = list /\ stored' = JsonArray(MapSeq(list, scenarioToQuery))
    \/ savedScenarios' = savedScenarios /\ stored' = stored

\* persistSaved(list): the state is set, the write may throw and is ignored
persistSaved(list) ==
    /\ savedScenarios' = list
    /\ \/ stored' = JsonArray(MapSeq(list, scenarioToQuery))
       \/ stored' = stored

prependDropNewest(item, saved) ==
    IF Len(saved) >= MaxSaved THEN saved ELSE <<item>> \o saved
prepend(item, saved) == sliceSaved(<<item>> \o saved)

saveScenarioMoving ==
    \E i \in Rows(scenarios) :
        LET s == scenarios[i]
            item == Scenario(stableId(nextId + 1),
                             IF s.name # "" THEN s.name ELSE "Saved",
                             s.n, s.autonomy, s.k, s.topology)
        IN  /\ Ran("saveScenario")
            /\ persistSaved(prepend(item, savedScenarios))
            /\ nextId' = nextId + 1
            /\ scenarios' = SubSeq(scenarios, 1, i - 1)
                             \o SubSeq(scenarios, i + 1, Len(scenarios))
            /\ UNCHANGED <<nAgents, autonomy, k, topology>>

saveScenario ==
    \E i \in Rows(scenarios) :
        LET s == scenarios[i]
            item == Scenario(stableId(nextId + 1),
                             IF s.name # "" THEN s.name ELSE "Saved",
                             s.n, s.autonomy, s.k, s.topology)
        IN  /\ Ran("saveScenario")
            /\ persistSaved(prepend(item, savedScenarios))
            /\ nextId' = nextId + 1
            /\ UNCHANGED <<nAgents, autonomy, k, topology, scenarios>>
    
addSavedToCompare ==
    \E i \in Rows(savedScenarios) :
        LET s == savedScenarios[i]
            name == IF s.name # "" THEN s.name
                    ELSE "Scenario " \o ToString(Len(scenarios) + 1)
        IN  /\ Ran("addSavedToCompare")
            /\ scenarios' = pin(scenarios,
                                Scenario(stableId(nextId + 1), name, s.n,
                                         s.autonomy, s.k, s.topology))
            /\ nextId' = nextId + 1
            /\ UNCHANGED <<nAgents, autonomy, k, topology, savedScenarios, stored>>
    
\* persistSaved(savedScenarios.filter(x => x.id !== id))
deleteSaved ==
    \E i \in Rows(savedScenarios) :
        LET id == savedScenarios[i].id
            keep(x) == x.id # id
        IN  /\ Ran("deleteSaved")
            /\ persistSaved(SelectSeq(savedScenarios, keep))
            /\ UNCHANGED <<nAgents, autonomy, k, topology, scenarios, nextId>>
    
Handlers(ntexts) ==
    \/ setNAgentsInput(ntexts)
    \/ setAutonomyInput
    \/ setKInput
    \/ setTopologySelect
    \/ addScenario
    \/ clearScenarios
    \/ renameScenario
    \/ removeScenario
    \/ loadScenario
    \/ saveScenario
    \/ applySaved
    \/ addSavedToCompare
    \/ deleteSaved

Next == Handlers(NTexts)

Spec == Init /\ [][Next]_vars

-----------------------------------------------------------------------------
(* The series (lines 356-405).  A value is defined (a number) or null.     *)

Null == [def |-> FALSE, val |-> <<0, 1>>]
Def(x) == [def |-> TRUE, val |-> x]

KeyOf(s) == "s_" \o s.id
\* scenarios.map(s => `s_${s.id}`)
scenarioLineKeysOf(list) == MapSeq(list, KeyOf)

\* scenarios.forEach(s => scenarioByKey.set(`s_${s.id}`, s)): the last
\* scenario set under a key is the one the key reads
scenarioByKey(list, key) ==
    list[CHOOSE j \in 1..Len(list) :
            /\ KeyOf(list[j]) = key
            /\ \A h \in (j + 1)..Len(list) : KeyOf(list[h]) # key]

RECURSIVE scenarioMax(_, _)
scenarioMax(list, m) ==
    IF list = <<>> THEN m ELSE scenarioMax(Tail(list), Max(m, Head(list).n))

maxNOf(n, list) == Max(Max(n, scenarioMax(list, 0)), Whole(1))

\* the body of the loop for row i
chartRow(i, n, a, c, t, list) ==
    [agents |-> i,
     baseline |-> riskLinear(i, DEFAULTS.r0),
     current |-> IF Whole(i) <= n
                 THEN Def(riskAgentsEdges(i, c, t, a, DEFAULTS))
                 ELSE Null,
     cols |-> [key \in {scenarioLineKeysOf(list)[j] : j \in 1..Len(list)} |->
                 LET s == scenarioByKey(list, key)
                 IN  IF Whole(i) <= s.n
                     THEN Def(riskAgentsEdges(i, clamp(s.k, Whole(0), s.n - Whole(1)),
                                          s.topology, s.autonomy, DEFAULTS))
                     ELSE Null]]

\* for (let i = 1; i <= maxN; i += 1) rows.push(row)
chartRowsOf(n, a, c, t, list) ==
    [i \in 1..Trunc(maxNOf(n, list)) |-> chartRow(i, n, a, c, t, list)]

chartRows == chartRowsOf(safeN, safeAutonomy, safeK, safeTopology, scenarios)

\* chartRows[Math.min(safeN, chartRows.length) - 1] || { baseline: 0, current: 0 }
finalRowOf(rows, n) ==
    LET idx == Min(n, Whole(Len(rows))) - Whole(1)
    IN  IF IsWhole(idx) /\ Trunc(idx) + 1 \in 1..Len(rows)
        THEN rows[Trunc(idx) + 1]
        ELSE [agents |-> 0, baseline |-> RInt(0), current |-> Def(RInt(0)),
              cols |-> <<>>]

\* finalBaseline > 0 ? finalConnected / finalBaseline : 0
finalMultipleOf(rows, n) ==
    LET finalRow == finalRowOf(rows, n)
        finalBaseline == finalRow.baseline
        finalConnected == IF finalRow.current.def THEN finalRow.current.val ELSE RInt(0)
    IN  IF finalBaseline[1] > 0 THEN RDiv(finalConnected, finalBaseline) ELSE RInt(0)

\* The CSV export (lines 200-231).  A cell is what cols holds before the
\* join: a number, a text, or the empty string.  items.join(sep) is kept as
\* the items and the separator it puts between them.
CsvEmpty == [t |-> "empty", s |-> "", val |-> <<0, 1>>]
CsvText(str) == [t |-> "text", s |-> str, val |-> <<0, 1>>]
CsvNum(x) == [t |-> "num", s |-> "", val |-> x]
Joined(items, sep) == [items |-> items, sep |-> sep]
NL == "\r\n"                     \* String.fromCharCode(13, 10)

\* scenarioKeys.flatMap(sk => [f(sk), g(sk)])
FlatMap2(keys, F(_), G(_)) ==
    [j \in 1..(2 * Len(keys)) |->
        IF j % 2 = 1 THEN F(keys[(j + 1) \div 2]) ELSE G(keys[j \div 2])]

buildCsv(rows, scenarioKeys) ==
    LET connectedName(sk) == CsvText(sk \o "_connected")
        multipleName(sk) == CsvText(sk \o "_multiple")
        header == <<CsvText("agents"), CsvText("baseline_linear"),
                    CsvText("current_connected"), CsvText("current_multiple")>>
                  \o FlatMap2(scenarioKeys, connectedName, multipleName)
        line(r) ==
            LET baseline == r.baseline
                current == r.current
                currentMultiple == IF baseline[1] > 0 /\ current.def
                                   THEN CsvNum(RDiv(current.val, baseline))
                                   ELSE CsvEmpty
                value(sk) == IF r.cols[sk].def THEN CsvNum(r.cols[sk].val)
                             ELSE CsvEmpty
                multiple(sk) == IF ~r.cols[sk].def THEN CsvEmpty
                                ELSE IF baseline[1] > 0
                                     THEN CsvNum(RDiv(r.cols[sk].val, baseline))
                                     ELSE CsvEmpty
            IN  Joined(<<CsvNum(RInt(r.agents)), CsvNum(baseline),
                         IF current.def THEN CsvNum(current.val) ELSE CsvEmpty,
                         currentMultiple>>
                       \o FlatMap2(scenarioKeys, value, multiple), ",")
    IN  Joined(<<Joined(header, ",")>> \o [i \in 1..Len(rows) |-> line(rows[i])], NL)

csv == buildCsv(chartRows, scenarioLineKeysOf(scenarios))

\* The same page with agent counts small enough to enumerate the series.
SeriesNTexts == {<<>>, <<"2", ".", "5">>, <<"5">>}
SeriesQueries ==
    {[n |-> NoParam, a |-> NoParam, k |-> NoParam, t |-> NoTParam, sc |-> NoText]}
    \cup {[n |-> Param(<<"3">>), a |-> NoParam, k |-> NoParam, t |-> TParam("mesh"),
           sc |-> sc] :
             sc \in {NoText} \cup {JsonArray(Cycle(p[1], p[2], len)) :
                                     p \in EntryPairs, len \in {1, MaxCompare}}}
SeriesStores == {NoText, JsonArray(<<SloppyEntry>>)}

InitSeries == Start(SeriesQueries, SeriesStores)
NextSeries == Handlers(SeriesNTexts)
SpecSeries == InitSeries /\ [][NextSeries]_vars

\* C9: the series has max(primary n, largest compare n, 1) rows; row i has
\* agents = i and baseline = i * r0; its current column is defined exactly
\* when i <= primary n, and the column of each compare scenario exactly when
\* i <= that scenario's n.
SeriesShape ==
    \E rows \in {chartRows} :
        /\ Whole(Len(rows)) = Max(Max(safeN, scenarioMax(scenarios, 0)), Whole(1))
        /\ \A i \in 1..Len(rows) :
              /\ rows[i].agents = i
              /\ rows[i].baseline = RMul(RInt(i), DEFAULTS.r0)
              /\ rows[i].current.def <=> (Whole(i) <= safeN)
              /\ \A j \in 1..Len(scenarios) :
                    rows[i].cols[KeyOf(scenarios[j])].def
                       <=> (Whole(i) <= scenarios[j].n)

\* C10: a column whose edge count is 0 at a row equals the baseline of the
\* row; so row 1 has every defined column equal to r0, and with one agent
\* baseline = connected = r0 and the risk multiple is 1.
ZeroEdgesGiveBaseline ==
    \E rows \in {chartRows} :
        /\ \A i \in 1..Len(rows) :
              /\ (rows[i].current.def /\ computeEdges(i, safeK, safeTopology) = 0)
                    => rows[i].current.val = rows[i].baseline
              /\ \A key \in DOMAIN rows[i].cols :
                    LET s == scenarioByKey(scenarios, key)
                    IN  (rows[i].cols[key].def /\ computeEdges(i, s.k, s.topology) = 0)
                           => rows[i].cols[key].val = rows[i].baseline
        /\ rows[1].baseline = DEFAULTS.r0
        /\ rows[1].current = Def(DEFAULTS.r0)
        /\ \A key \in DOMAIN rows[1].cols : rows[1].cols[key] = Def(DEFAULTS.r0)
        /\ safeN = Whole(1) => finalMultipleOf(rows, safeN) = RInt(1)

\* one agent with a connection cap left over from a larger system, beside
\* compare scenarios that have edges further on
OneAgentBesideScenarios ==
    /\ safeN = Whole(1)
    /\ NumberOr(k, Whole(0)) > 0
    /\ scenarios # <<>>
    /\ \E rows \in {chartRows} :
          /\ Len(rows) > 1
          /\ \E key \in DOMAIN rows[2].cols :
                rows[2].cols[key].def /\ rows[2].cols[key].val # rows[2].baseline

\* C12: the CSV is a header line and one line per row of the domain, joined
\* by CRLF; every line has 4 + 2 * (number of scenarios) comma-joined fields:
\* agents, baseline_linear, current_connected, current_multiple, then
\* <key>_connected, <key>_multiple per scenario in list order; the current
\* fields are empty exactly in the rows past the primary agent count, and a
\* scenario's two fields exactly in the rows past that scenario's agent
\* count (empty, not 0).
CsvShape ==
    \E text \in {csv} :
        LET lines == text.items
            width == 4 + 2 * Len(scenarios)
            filled(c) == c.t = "num"
        IN  /\ text.sep = NL
            /\ Whole(Len(lines) - 1) = maxNOf(safeN, scenarios)
            /\ Len(lines) - 1 = Len(chartRows)
            /\ \A h \in 1..Len(lines) :
                  lines[h].sep = "," /\ Len(lines[h].items) = width
            /\ SubSeq(lines[1].items, 1, 4)
                  = <<CsvText("agents"), CsvText("baseline_linear"),
                      CsvText("current_connected"), CsvText("current_multiple")>>
            /\ \A j \in 1..Len(scenarios) :
                  /\ lines[1].items[3 + 2 * j]
                        = CsvText(KeyOf(scenarios[j]) \o "_connected")
                  /\ lines[1].items[4 + 2 * j]
                        = CsvText(KeyOf(scenarios[j]) \o "_multiple")
            /\ \A i \in 1..(Len(lines) - 1) :
                  LET cells == lines[i + 1].items
                  IN  /\ cells[1] = CsvNum(RInt(i))
                      /\ filled(cells[2])
                      /\ filled(cells[3]) <=> (Whole(i) <= safeN)
                      /\ filled(cells[4]) <=> (Whole(i) <= safeN)
                      /\ \A c \in 1..4 : cells[c].t \in {"num", "empty"}
                      /\ \A j \in 1..Len(scenarios) :
                            /\ filled(cells[3 + 2 * j]) <=> (Whole(i) <= scenarios[j].n)
                            /\ filled(cells[4 + 2 * j]) <=> (Whole(i) <= scenarios[j].n)
                            /\ cells[3 + 2 * j].t \in {"num", "empty"}
                            /\ cells[4 + 2 * j].t \in {"num", "empty"}

\* C16: the final row is the row of the series whose agents value is the
\* primary agent count; it has a defined current value and a baseline above
\* 0, and the risk multiple is its current value over its baseline.
FinalRowIsPrimary ==
    \E rows \in {chartRows} :
        LET finalRow == finalRowOf(rows, safeN)
        IN  /\ \E i \in 1..Len(rows) : rows[i] = finalRow
            /\ Whole(finalRow.agents) = safeN
            /\ finalRow.current.def
            /\ finalRow.baseline[1] > 0
            /\ finalMultipleOf(rows, safeN)
                  = RDiv(finalRow.current.val, finalRow.baseline)

-----------------------------------------------------------------------------
(* The default scenario: 30 agents, autonomy 5, k 3, bounded.              *)

\* x to two decimals, in hundredths
Round2(x) == Round(RMul(x, RInt(100)))

DefaultConfigShown ==
    /\ safeN = Whole(30)
    /\ safeAutonomy = Whole(5)
    /\ safeK = Whole(3)
    /\ safeTopology = "bounded"

\* The numbers of the default scenario, given the connected value and the
\* risk multiple to two decimals (in hundredths).
DefaultNumbersAre(connected, multiple) ==
    DefaultConfigShown =>
        \E rows \in {chartRows} :
            LET finalRow == finalRowOf(rows, safeN)
                finalMultiple == finalMultipleOf(rows, safeN)
            IN  /\ computeEdges(30, safeK, safeTopology) = Whole(84)
                /\ couplingOf(30, safeK, safeTopology, safeAutonomy, DEFAULTS) = RInt(546)
                /\ finalRow.current.def
                /\ Round2(finalRow.current.val) = connected
                /\ finalRow.baseline = RInt(30)
                /\ Round2(finalMultiple) = multiple
                /\ \A sep \in GroupSeparators :
                      formatMultiple(finalMultiple, sep) = "46x"

\* C11 as stated: with the default configuration the edge count is 84, the
\* coupling 546, the connected value at 30 agents 1386.89, the baseline 30,
\* the risk multiple 46.23, shown as "46x".
DefaultScenarioAsStated == DefaultNumbersAre(138689, 4623)

\* C11, amended: with the default configuration the edge count is 84, the
\* coupling 546, the connected value at 30 agents 1386.26 to two decimals
\* (30 + 163.8 + 1192.464), the baseline 30, the risk multiple 46.21 to two
\* decimals, shown as "46x".
DefaultScenarioNumbers == DefaultNumbersAre(138626, 4621)

\* the default configuration on screen, beside a pinned copy of it
DefaultPinned ==
    /\ DefaultConfigShown
    /\ lastOp.name = "addScenario"
    /\ scenarios[Len(scenarios)].n = Whole(30)

-----------------------------------------------------------------------------
(* The compare list and the saved list.                                    *)

Pinned == lastOp.name \in {"addScenario", "addSavedToCompare"}

\* C1: the compare list never holds more than 8 scenarios, whatever URL the
\* page was opened with and whatever handlers ran; a pin made when 8 are
\* present leaves exactly 8.
CompareListCapped ==
    /\ Len(scenarios) <= MaxCompare
    /\ (Pinned /\ lastOp.compare = MaxCompare) => Len(scenarios) = MaxCompare

PinnedNinth == lastOp.name = "addScenario" /\ lastOp.compare = MaxCompare

SameValues(a, b) ==
    /\ a.n = b.n
    /\ a.autonomy = b.autonomy
    /\ a.k = b.k
    /\ a.topology = b.topology

\* C2: a save puts a copy of the scenario, under the id just made, at the
\* head of the saved list, with the previous entries behind it in their
\* order, cut to 20 (so a save on a full list drops the last, oldest, entry
\* and nothing else); a delete keeps the remaining entries in their order;
\* the list never exceeds 20.
SavedNewestFirst ==
    [][ /\ Len(savedScenarios') <= MaxSaved
        /\ lastOp'.name = "saveScenario" =>
              /\ savedScenarios' # <<>>
              /\ savedScenarios'[1].id = stableId(nextId')
              /\ \E i \in 1..Len(scenarios) :
                    /\ SameValues(savedScenarios'[1], scenarios[i])
                    /\ savedScenarios'[1].name \in {scenarios[i].name, "Saved"}
              /\ Tail(savedScenarios') = Take(savedScenarios, MaxSaved - 1)
        /\ lastOp'.name = "deleteSaved" =>
              \E i \in 1..Len(savedScenarios) :
                 LET keep(x) == x.id # savedScenarios[i].id
                 IN  savedScenarios' = SelectSeq(savedScenarios, keep)
      ]_vars

SavedOnFullList ==
    /\ lastOp.name = "saveScenario"
    /\ lastOp.saved = MaxSaved
    /\ Len(savedScenarios) = MaxSaved

\* C3: a pin (from the controls or from a saved scenario) made when the
\* compare list holds 8 leaves the list as it was: the new scenario is the
\* one dropped.
PinOnFullListDropsNewcomer ==
    [][ (lastOp'.name \in {"addScenario", "addSavedToCompare"}
         /\ Len(scenarios) = MaxCompare) => scenarios' = scenarios ]_vars

PinnedSavedOnFullList ==
    lastOp.name = "addSavedToCompare" /\ lastOp.compare = MaxCompare

IdsOf(list) == {list[i].id : i \in 1..Len(list)}

\* C13: a save copies the scenario's values under an id that no scenario of
\* either list has, and leaves the compare list as it was; a delete of a
\* saved scenario leaves the compare list as it was; remove, rename, clear
\* and add-to-compare leave the saved list as it was.
ListsIndependent ==
    [][ /\ lastOp'.name = "saveScenario" =>
              /\ scenarios' = scenarios
              /\ savedScenarios'[1].id \notin IdsOf(scenarios) \cup IdsOf(savedScenarios)
              /\ \E i \in 1..Len(scenarios) :
                    SameValues(savedScenarios'[1], scenarios[i])
        /\ lastOp'.name = "deleteSaved" => scenarios' = scenarios
        /\ lastOp'.name \in {"remove", "rename", "clear", "addSavedToCompare"}
              => savedScenarios' = savedScenarios
      ]_vars

\* a saved scenario was deleted while scenarios are pinned
DeletedBesidePinned ==
    /\ lastOp.name = "deleteSaved"
    /\ Len(savedScenarios) < lastOp.saved
    /\ scenarios # <<>>
    /\ Len(scenarios) = lastOp.compare

\* C17: the scenarios of the compare list have pairwise distinct ids, hence
\* pairwise distinct column keys, after decoding any sc payload and after
\* any handlers.
CompareIdsDistinct ==
    \A i, j \in 1..Len(scenarios) :
        i # j => /\ scenarios[i].id # scenarios[j].id
                 /\ scenarioLineKeysOf(scenarios)[i] # scenarioLineKeysOf(scenarios)[j]

-----------------------------------------------------------------------------
(* Loading the persisted list.                                             *)

ScenarioInRange(s) ==
    /\ Whole(1) <= s.n /\ s.n <= Whole(MaxAgents)
    /\ Whole(1) <= s.autonomy /\ s.autonomy <= Whole(MaxAutonomy)
    /\ Whole(0) <= s.k /\ s.k <= s.n - Whole(1)
    /\ s.topology \in TopologyValues

\* An array element that is a scenario as the page itself writes it.
WellFormed(x) ==
    /\ ~x.isNull
    /\ x.id.t = "str" /\ x.id.s # ""
    /\ x.name.t = "str" /\ x.name.s # ""
    /\ x.n.t = "num" /\ x.autonomy.t = "num" /\ x.k.t = "num"
    /\ IsWhole(x.n.v) /\ IsWhole(x.autonomy.v) /\ IsWhole(x.k.v)
    /\ x.topology.t = "str"
    /\ ScenarioInRange(Scenario(x.id.s, x.name.s, x.n.v, x.autonomy.v, x.k.v,
                                x.topology.s))

\* C14: whatever array the store holds, the saved list after load has one
\* scenario per element, up to 20, each within the ranges, and the
\* well-formed elements among the first 20 are in it as they were stored;
\* an element that is null, no object, or has missing or ill-typed fields
\* costs only itself.
LoadRecoversEntries ==
    (lastOp.name = "open" /\ stored.kind = "json" /\ stored.isArray) =>
        /\ Len(savedScenarios) = Min(MaxSaved, Len(stored.items))
        /\ \A i \in 1..Len(savedScenarios) :
              /\ ScenarioInRange(savedScenarios[i])
              /\ WellFormed(stored.items[i])
                    => scenarioToQuery(savedScenarios[i]) = stored.items[i]
        /\ \A i \in 1..Min(MaxSaved, Len(stored.items)) :
              WellFormed(stored.items[i])
                 => \E j \in 1..Len(savedScenarios) :
                       scenarioToQuery(savedScenarios[j]) = stored.items[i]

\* C18: every scenario of the compare list and of the saved list has n in
\* [1, 200], autonomy in [1, 10], 0 <= k <= n - 1 and one of the four
\* topologies; so the clamp of s.k that the series applies gives s.k.
ListedScenariosInRange ==
    \A list \in {scenarios, savedScenarios} :
        \A i \in 1..Len(list) :
            /\ ScenarioInRange(list[i])
            /\ clamp(list[i].k, Whole(0), list[i].n - Whole(1)) = list[i].k

\* a scenario pinned at a fractional agent count with k at its limit, beside
\* entries that decode and load had to clamp
PinnedAtTheLimit ==
    /\ lastOp.name = "addScenario"
    /\ Len(scenarios) > lastOp.compare
    /\ ~IsWhole(scenarios[Len(scenarios)].n)
    /\ scenarios[Len(scenarios)].k = scenarios[Len(scenarios)].n - Whole(1)
    /\ \E i \in 1..Len(savedScenarios) : savedScenarios[i].k = savedScenarios[i].n - Whole(1)

-----------------------------------------------------------------------------
(* Writing the persisted list.                                             *)

\* JSON.stringify(list)
Stringified(list) == JsonArray(MapSeq(list, scenarioToQuery))

\* C15: a save or delete whose write to the store fails still completes:
\* the saved list in memory has the new scenario at its head, or has lost
\* the deleted one, computed from the list in memory; the store is left as
\* it was (nothing is written later in its place); whether or not earlier
\* writes failed, every save and delete works from the list in memory.
StorageFailureSwallowed ==
    [][ lastOp'.name \in {"saveScenario", "deleteSaved"} =>
          /\ stored' \in {Stringified(savedScenarios'), stored}
          /\ lastOp'.name = "saveScenario" =>
                /\ savedScenarios' # <<>>
                /\ savedScenarios'[1].id = stableId(nextId')
                /\ Tail(savedScenarios') = Take(savedScenarios, MaxSaved - 1)
          /\ lastOp'.name = "deleteSaved" =>
                /\ Len(savedScenarios') < Len(savedScenarios)
                /\ \E i \in 1..Len(savedScenarios) :
                      /\ savedScenarios[i].id \notin IdsOf(savedScenarios')
                      /\ LET keep(x) == x.id # savedScenarios[i].id
                         IN  savedScenarios' = SelectSeq(savedScenarios, keep)
      ]_vars

\* two saves in a row whose writes both failed: the store is still empty and
\* the list in memory holds both
SavedTwiceWithoutStore ==
    /\ lastOp.name = "saveScenario"
    /\ lastOp.saved = 1
    /\ Len(savedScenarios) = 2
    /\ stored = NoText

-----------------------------------------------------------------------------
(* The share URL.                                                          *)

\* C4: the URL the sync effect wrote decodes to the effective configuration
\* and to the compare list, entry for entry.
ShareUrlRoundTrip ==
    \E d \in {readInitialStateFromUrl(shareUrl, nextId)} :
        /\ d.n = safeN
        /\ d.autonomy = safeAutonomy
        /\ d.k = safeK
        /\ d.topology = safeTopology
        /\ d.scenarios = scenarios

-----------------------------------------------------------------------------
(* The effective configuration.                                            *)

\* C6: whatever the controls were given, the effective configuration has
\* 1 <= safeN <= 200, 1 <= safeAutonomy <= 10, 0 <= safeK <= safeN - 1 and
\* one of the four topologies.
EffectiveConfigInRange ==
    /\ Whole(1) <= safeN /\ safeN <= Whole(MaxAgents)
    /\ Whole(1) <= safeAutonomy /\ safeAutonomy <= Whole(MaxAutonomy)
    /\ Whole(0) <= safeK /\ safeK <= safeN - Whole(1)
    /\ safeTopology \in TopologyValues

\* the agent count was lowered below a k chosen before
LoweredBelowK ==
    /\ lastOp.name = "setNAgents"
    /\ NumberOr(k, Whole(0)) > safeN - Whole(1)

-----------------------------------------------------------------------------
(* Opening the page with any query: decode on its own.                     *)

\* The component before it has a window (initial.current is null): the
\* useState defaults of lines 306-312.
NotOpened ==
    /\ nAgents = rawNum(Whole(30))
    /\ autonomy = rawNum(Whole(5))
    /\ k = rawNum(Whole(3))
    /\ topology = "bounded"
    /\ scenarios = <<>>
    /\ savedScenarios = <<>>
    /\ nextId = 0
    /\ stored = NoText
    /\ search = [n |-> NoParam, a |-> NoParam, k |-> NoParam, t |-> NoTParam,
                 sc |-> NoText]
    /\ lastOp = [name |-> "none", compare |-> 0, saved |-> 0]
    /\ ops = 0
    /\ probe = NoProbe

\* Query parameter texts: absent, empty, no number, out of range either
\* way, a fraction, leading blanks, an exponent.
NParams == {NoParam, Param(<<>>), Param(<<"a", "b", "c">>), Param(<<"0">>),
            Param(<<"-", "5">>), Param(<<"7">>), Param(<<"7", ".", "9">>),
            Param(<<"2", "0", "1">>), Param(<<" ", "1", "2">>),
            Param(<<"1", "e", "3">>)}
AParams == {NoParam, Param(<<"0">>), Param(<<"1", "1">>), Param(<<"x">>)}
KParams == {NoParam, Param(<<"-", "1">>), Param(<<"5", "0", "0">>), Param(<<"2">>)}
TParams == {NoTParam, TParam(""), TParam("hub"), TParam("star")}

\* Entries of an sc array: every field missing, ill-typed, out of range or fine.
WideEntries ==
    { JObject(id, name, n, a, c, t) :
        id \in {jUndef, jStr("u1"), jNum(Whole(7)), jArr},
        name \in {jUndef, jStr(""), jStr("A")},
        n \in {nUndef, nNum(Whole(300)), nStr(<<" ", "1", "2">>), nNum(5), nNum(0)},
        a \in {nNull, nNum(Whole(22))},
        c \in {nUndef, nNum(Whole(300)), nNum(Whole(-2)), nStr(<<"1">>)},
        t \in {jUndef, jStr("mesh"), jStr("star"), jNum(Whole(1))} }

WideScs ==
    {NoText, BadText, JsonOther, JsonArray(<<>>)}
    \cup {JsonArray(<<e>>) : e \in WideEntries}
    \cup {JsonArray(Cycle(p[1], p[2], len)) :
             p \in EntryPairs \cup {<<TidyEntry, JNullEntry>>},
             len \in PayloadLens \cup {2}}

WideQueries ==
    {[n |-> n, a |-> a, k |-> c, t |-> t, sc |-> sc] :
        n \in NParams, a \in AParams, c \in KParams, t \in TParams,
        sc \in {NoText, BadText}}
    \cup {[n |-> NoParam, a |-> NoParam, k |-> NoParam, t |-> NoTParam, sc |-> sc] :
             sc \in WideScs}

\* The page is opened with query q (lines 301-312 and the load effect).
openPage ==
    /\ lastOp.name = "none"
    /\ \E q \in WideQueries :
       \E st \in {Opened(q, stored)} :
        /\ nAgents' = st.nAgents
        /\ autonomy' = st.autonomy
        /\ k' = st.k
        /\ topology' = st.topology
        /\ scenarios' = st.scenarios
        /\ savedScenarios' = st.savedScenarios
        /\ nextId' = st.nextId
        /\ search' = q
        /\ lastOp' = [name |-> "open", compare |-> 0, saved |-> 0]
        /\ UNCHANGED <<stored, ops, probe>>

SpecDecode == NotOpened /\ [][openPage]_vars

WithoutSc(q) == [q EXCEPT !.sc = NoText]

\* C5: whatever the query, the decoded state has n in [1, 200], autonomy in
\* [1, 10], k in [0, n - 1], all integers, and a known topology (an unknown
\* one reads as bounded); the compare list has at most 8 entries, each with
\* k in [0, its n - 1]; an sc that cannot be parsed gives the empty list and
\* the primary parameters that the query gives without it.
DecodeTotalAndDefensive ==
    lastOp.name = "open" =>
        /\ ~nAgents.isText /\ ~autonomy.isText /\ ~k.isText
        /\ IsWhole(nAgents.v) /\ IsWhole(autonomy.v) /\ IsWhole(k.v)
        /\ Whole(1) <= nAgents.v /\ nAgents.v <= Whole(MaxAgents)
        /\ Whole(1) <= autonomy.v /\ autonomy.v <= Whole(MaxAutonomy)
        /\ Whole(0) <= k.v /\ k.v <= nAgents.v - Whole(1)
        /\ topology \in TopologyValues
        /\ (~search.t.present \/ search.t.text \notin TopologyValues)
              => topology = "bounded"
        /\ Len(scenarios) <= MaxCompare
        /\ \A i \in 1..Len(scenarios) :
              /\ Whole(0) <= scenarios[i].k
              /\ scenarios[i].k <= scenarios[i].n - Whole(1)
        /\ search.sc.kind = "bad" =>
              /\ scenarios = <<>>
              /\ \E d \in {Opened(WithoutSc(search), stored)} :
                    /\ nAgents = d.nAgents
                    /\ autonomy = d.autonomy
                    /\ k = d.k
                    /\ topology = d.topology

\* an sc that cannot be parsed, beside primary parameters that need clamping
DecodedBadScWithClamping ==
    /\ lastOp.name = "open"
    /\ search.sc.kind = "bad"
    /\ search.n = Param(<<"2", "0", "1">>)
    /\ search.k = Param(<<"5", "0", "0">>)
    /\ nAgents.v = Whole(MaxAgents)
    /\ k.v = Whole(MaxAgents - 1)

-----------------------------------------------------------------------------
(* The edge counts on their own: computeEdges over integer n >= 1, k >= 0. *)

MaxN == 12           \* largest agent count tried
MaxK == 14           \* largest connection cap tried

evalEdges ==
    \E n \in 1..MaxN, c \in 0..MaxK, t \in TopologyValues :
        /\ probe' = [fn |-> "edges", n |-> n, k |-> c, topology |-> t,
                     edges |-> computeEdges(n, Whole(c), t)]
        /\ UNCHANGED <<page, lastOp, ops>>

SpecEdges == NotOpened /\ [][evalEdges]_vars

\* the sum of F(i) for i from lo to hi
RECURSIVE Sigma(_, _, _)
Sigma(lo, hi, f) == IF lo > hi THEN 0 ELSE f[hi] + Sigma(lo, hi - 1, f)

ReferenceEdges(n, c, t) ==
    LET bounded == [i \in 2..n |-> Min(c, i - 1)]
        hub == [i \in 2..n |-> 1 + Min(Max(0, c - 1), i - 2)]
    IN  CASE t = "bounded" -> Sigma(2, n, bounded)
          [] t = "mesh" -> (n * (n - 1)) \div 2
          [] t = "hub" -> IF c > 0 THEN Sigma(2, n, hub) ELSE 0
          [] t = "pipeline" -> IF c > 0 THEN n - 1 ELSE 0

EdgesMonotoneInK ==
    probe.fn = "edges" =>
        probe.edges <= computeEdges(probe.n, Whole(probe.k + 1), probe.topology)

\* a cap whose increase adds edges
CapStillBinding ==
    /\ probe.fn = "edges"
    /\ probe.topology = "pipeline"
    /\ probe.k = 0
    /\ probe.edges < computeEdges(probe.n, Whole(probe.k + 1), probe.topology)

====
